---- MODULE Spec2Model ----
(***************************************************************************)
(* The student-report pipeline of report_generator.py:                     *)
(*   load_all_sheets -> clean_df -> drop_duplicates -> compute_all_stats   *)
(* A cell of the DataFrame is a tagged value; text is a sequence of        *)
(* one-character strings so that strip/title/upper, the regular            *)
(* expressions and the numeric parser are computed character by character. *)
(* Numbers are fixed-point with Scale units per 1 (two decimals).          *)
(***************************************************************************)
EXTENDS Integers, Sequences, FiniteSets, TLC

VARIABLES pc, cols, raw, df, stats, err
vars == <<pc, cols, raw, df, stats, err>>

\* ------------------------------------------------------------------ bounds
MaxRows == 3
Scale == 10 * 10

\* ------------------------------------------------------------------- cells
NA == [t |-> "na", s |-> <<>>, n |-> 0, b |-> FALSE]
Str(s) == [t |-> "str", s |-> s, n |-> 0, b |-> FALSE]
Num(n) == [t |-> "num", s |-> <<>>, n |-> n, b |-> FALSE]
Bool(b) == [t |-> "bool", s |-> <<>>, n |-> 0, b |-> b]
IsNA(c) == c.t = "na"

\* -------------------------------------------------------------- characters
Digits == <<"0", "1", "2", "3", "4", "5", "6", "7", "8", "9">>
LowerCase == <<"a", "b", "c", "d", "e", "f", "g", "h", "i", "j", "k", "l", "m",
               "n", "o", "p", "q", "r", "s", "t", "u", "v", "w", "x", "y", "z">>
UpperCase == <<"A", "B", "C", "D", "E", "F", "G", "H", "I", "J", "K", "L", "M",
               "N", "O", "P", "Q", "R", "S", "T", "U", "V", "W", "X", "Y", "Z">>
IndexIn(seq, ch) == CHOOSE i \in 1..Len(seq) : seq[i] = ch
IsIn(seq, ch) == \E i \in 1..Len(seq) : seq[i] = ch
DigitSet == {Digits[i] : i \in 1..Len(Digits)}
LowerSet == {LowerCase[i] : i \in 1..Len(LowerCase)}
UpperSet == {UpperCase[i] : i \in 1..Len(UpperCase)}
IsDigit(ch) == ch \in DigitSet
DigitVal(ch) == IndexIn(Digits, ch) - 1
IsAlpha(ch) == ch \in LowerSet \/ ch \in UpperSet
IsSpace(ch) == ch = " "
ToUpper(ch) == IF ch \in LowerSet THEN UpperCase[IndexIn(LowerCase, ch)] ELSE ch
ToLower(ch) == IF ch \in UpperSet THEN LowerCase[IndexIn(UpperCase, ch)] ELSE ch

\* ---------------------------------------------------------- str accessors
RECURSIVE LStrip(_)
LStrip(s) == IF s # <<>> /\ IsSpace(Head(s)) THEN LStrip(Tail(s)) ELSE s
RECURSIVE RStrip(_)
RStrip(s) ==
    IF s # <<>> /\ IsSpace(s[Len(s)]) THEN RStrip(SubSeq(s, 1, Len(s) - 1)) ELSE s
Strip(s) == RStrip(LStrip(s))
Upper(s) == [i \in 1..Len(s) |-> ToUpper(s[i])]
\* str.title(): a letter is upper-cased when the character before it is not a
\* letter, lower-cased otherwise
Title(s) ==
    [i \in 1..Len(s) |->
        IF ~IsAlpha(s[i]) THEN s[i]
        ELSE IF i > 1 /\ IsAlpha(s[i - 1]) THEN ToLower(s[i]) ELSE ToUpper(s[i])]
AllDigits(s) == \A i \in 1..Len(s) : IsDigit(s[i])
\* r'\d{2}[A-Za-z]'
MatchClass(s) == Len(s) = 3 /\ IsDigit(s[1]) /\ IsDigit(s[2]) /\ IsAlpha(s[3])
\* r'\d{2}-\d{2}'
MatchCohort(s) ==
    /\ Len(s) = 5
    /\ IsDigit(s[1]) /\ IsDigit(s[2]) /\ s[3] = "-" /\ IsDigit(s[4]) /\ IsDigit(s[5])
\* r'\d{4}'
MatchFourDigits(s) == Len(s) = 4 /\ AllDigits(s)

\* ------------------------------------------------------------- conversions
RECURSIVE DigitsVal(_)
DigitsVal(d) ==
    IF d = <<>> THEN 0
    ELSE DigitsVal(SubSeq(d, 1, Len(d) - 1)) * 10 + DigitVal(d[Len(d)])
\* pd.to_numeric(errors="coerce") on one text: [-]digits[.digits], the value in
\* Scale units; anything else is NaN.  Texts carry at most two decimals.
ToNumeric(s) ==
    LET neg == s # <<>> /\ Head(s) = "-"
        body == IF neg THEN Tail(s) ELSE s
        dots == {i \in 1..Len(body) : body[i] = "."}
        p == IF dots = {} THEN Len(body) + 1 ELSE CHOOSE i \in dots : TRUE
        ip == SubSeq(body, 1, p - 1)
        fp == SubSeq(body, p + 1, Len(body))
        ok == /\ Cardinality(dots) <= 1
              /\ Len(ip) >= 1 /\ AllDigits(ip)
              /\ Len(fp) <= 2 /\ AllDigits(fp)
        frac == IF Len(fp) = 0 THEN 0
                ELSE IF Len(fp) = 1 THEN DigitVal(fp[1]) * 10
                ELSE DigitsVal(fp)
        mag == DigitsVal(ip) * Scale + frac
    IN  IF ~ok THEN NA ELSE Num(IF neg THEN 0 - mag ELSE mag)
ToNumericCell(c) == IF c.t = "str" THEN ToNumeric(c.s) ELSE NA
\* str(int)
RECURSIVE NatToStr(_)
NatToStr(n) ==
    IF n < 10 THEN <<Digits[n + 1]>> ELSE NatToStr(n \div 10) \o <<Digits[(n % 10) + 1]>>
IntToStr(n) == IF n < 0 THEN <<"-">> \o NatToStr(0 - n) ELSE NatToStr(n)

\* ------------------------------------------------------- program constants
SPECIAL_NULLS ==
    { <<>>, <<" ">>, <<"N", "A">>, <<"N", "/", "A">>, <<"n", "/", "a">>,
      <<"N", "a", "N">>, <<"-">>, <<"W", "a", "i", "v", "e", "d">>,
      <<"N", "o", "n", "e">>, <<"n", "u", "l", "l">> }
BoolTrue ==
    { <<"T", "R", "U", "E">>, <<"Y">>, <<"Y", "E", "S">>, <<"1">>, <<"1", ".", "0">> }
BoolFalse ==
    { <<"F", "A", "L", "S", "E">>, <<"N">>, <<"N", "O">>, <<"0">>, <<"0", ".", "0">> }
\* BOOL_MAP lookup (.map): a key that is absent gives NaN
BOOL_MAP(k) == IF k \in BoolTrue THEN Bool(TRUE) ELSE IF k \in BoolFalse THEN Bool(FALSE) ELSE NA
STR_COLS == {"FirstName", "LastName", "Class", "Cohort", "Track"}
INT_COLS == {"StudentID", "Term"}
SCORE_COLS == {"Math", "English", "Science", "History", "Attendance (%)", "ProjectScore"}
BOOLEAN_COLS == {"IncomeStudent", "Passed (Y/N)"}
MinScore == 0
MaxScore == 100
TermValues == {1, 2}

\* ------------------------------------------------------------------ frames
\* a DataFrame is a sequence of rows [idx, cells]; idx is the row's index label
Cell(frame, i, c) == frame[i].cells[c]
\* the frame with every cell replaced by F of it
MapCells(frame, F(_, _, _)) ==
    [i \in 1..Len(frame) |->
        [idx |-> frame[i].idx,
         cells |-> [c \in DOMAIN frame[i].cells |-> F(frame, i, c)]]]

\* ---------------------------------------------------------------- clean_df
\* df.replace(SPECIAL_NULLS, pd.NA)
ReplaceNulls(frame) ==
    MapCells(frame, LAMBDA f, i, c :
        IF Cell(f, i, c).t = "str" /\ Cell(f, i, c).s \in SPECIAL_NULLS
        THEN NA ELSE Cell(f, i, c))
\* astype("string").str.strip().str.title() on the string columns
NormalizeStrings(frame) ==
    MapCells(frame, LAMBDA f, i, c :
        IF c \in STR_COLS /\ Cell(f, i, c).t = "str"
        THEN Str(Title(Strip(Cell(f, i, c).s))) ELSE Cell(f, i, c))
\* Class and Cohort that do not match their format become NA
ValidateFormats(frame) ==
    MapCells(frame, LAMBDA f, i, c :
        IF IsNA(Cell(f, i, c)) THEN NA
        ELSE IF c = "Class" /\ ~MatchClass(Cell(f, i, c).s) THEN NA
        ELSE IF c = "Cohort" /\ ~MatchCohort(Cell(f, i, c).s) THEN NA
        ELSE Cell(f, i, c))
\* .astype("Int64") raises TypeError ("cannot safely cast non-equivalent float64
\* to int64") when a value of the column has a fractional part
IntCastRaises(frame) ==
    \E i \in 1..Len(frame) : \E c \in INT_COLS \cap DOMAIN frame[i].cells :
        LET x == ToNumericCell(Cell(frame, i, c)) IN ~IsNA(x) /\ x.n % Scale # 0
\* pd.to_numeric(df[c], errors="coerce").astype("Int64")
CoerceInts(frame) ==
    MapCells(frame, LAMBDA f, i, c :
        IF c \notin INT_COLS THEN Cell(f, i, c)
        ELSE LET x == ToNumericCell(Cell(f, i, c))
             IN  IF IsNA(x) THEN NA ELSE Num(x.n \div Scale))
\* mutant (C12): the StudentID is padded with zeros to four characters before
\* it is matched
ValidateIdsZeroPadded(frame) ==
    MapCells(frame, LAMBDA f, i, c :
        IF IsNA(Cell(f, i, c)) THEN NA
        ELSE IF c = "StudentID"
                /\ ~MatchFourDigits(
                      LET t == IntToStr(Cell(f, i, c).n)
                      IN  [k \in 1..(4 - Len(t)) |-> "0"] \o t) THEN NA
        ELSE IF c = "Term" /\ Cell(f, i, c).n \notin TermValues THEN NA
        ELSE Cell(f, i, c))
\* StudentID whose str() is not four digits, Term outside [1, 2] become NA
ValidateIds(frame) ==
    MapCells(frame, LAMBDA f, i, c :
        IF IsNA(Cell(f, i, c)) THEN NA
        ELSE IF c = "StudentID" /\ ~MatchFourDigits(IntToStr(Cell(f, i, c).n)) THEN NA
        ELSE IF c = "Term" /\ Cell(f, i, c).n \notin TermValues THEN NA
        ELSE Cell(f, i, c))
\* mutant (C1): the range filter forgets the upper bound
CoerceScoresNoUpperBound(frame) ==
    MapCells(frame, LAMBDA f, i, c :
        IF c \notin SCORE_COLS THEN Cell(f, i, c)
        ELSE LET x == ToNumericCell(Cell(f, i, c))
             IN  IF IsNA(x) \/ x.n < MinScore * Scale THEN NA ELSE x)
\* pd.to_numeric(errors="coerce"), then values < 0 or > 100 become NA
CoerceScores(frame) ==
    MapCells(frame, LAMBDA f, i, c :
        IF c \notin SCORE_COLS THEN Cell(f, i, c)
        ELSE LET x == ToNumericCell(Cell(f, i, c))
             IN  IF IsNA(x) \/ x.n < MinScore * Scale \/ x.n > MaxScore * Scale
                 THEN NA ELSE x)
\* mutant (C7): the mean and the mode are taken over the whole column
GroupValidAllTracks(frame, i, c) ==
    {j \in 1..Len(frame) : ~IsNA(Cell(frame, j, c))}
\* mutant (C11): a row that misses an identifying field is left out of its
\* group
GroupValidCompleteRows(frame, i, c) ==
    {j \in 1..Len(frame) :
        /\ ~IsNA(Cell(frame, i, "Track"))
        /\ Cell(frame, j, "Track") = Cell(frame, i, "Track")
        /\ ~IsNA(Cell(frame, j, c))
        /\ \A d \in DOMAIN frame[j].cells \ (SCORE_COLS \cup BOOLEAN_COLS) :
              ~IsNA(Cell(frame, j, d))}
\* the rows of row i's group in groupby('Track') (a missing key has no group)
\* that hold a value in column c
GroupValid(frame, i, c) ==
    {j \in 1..Len(frame) :
        /\ ~IsNA(Cell(frame, i, "Track"))
        /\ Cell(frame, j, "Track") = Cell(frame, i, "Track")
        /\ ~IsNA(Cell(frame, j, c))}
RECURSIVE SumCells(_, _, _)
SumCells(frame, S, c) ==
    IF S = {} THEN 0
    ELSE LET j == CHOOSE k \in S : TRUE
         IN  Cell(frame, j, c).n + SumCells(frame, S \ {j}, c)
\* round half to even of a / b, for a >= 0 and b > 0
RoundHalfEven(a, b) ==
    LET q == a \div b
        r == a % b
    IN  IF 2 * r < b THEN q
        ELSE IF 2 * r > b THEN q + 1
        ELSE IF q % 2 = 0 THEN q ELSE q + 1
\* mutant (C6): the mean is truncated to one decimal instead of rounded
Round1Floor(sum, cnt) == (Scale \div 10) * ((sum * 10) \div (Scale * cnt))
\* round(mean, 1) of a group with the given sum and count, in Scale units
Round1(sum, cnt) == (Scale \div 10) * RoundHalfEven(sum * 10, Scale * cnt)
\* round(df.groupby('Track')[c].transform('mean'), 1) at row i
GrpMean(frame, i, c) ==
    LET S == GroupValid(frame, i, c)
    IN  IF S = {} THEN NA ELSE Num(Round1(SumCells(frame, S, c), Cardinality(S)))
\* df[c].fillna(round(grp_mean, 1)) for the score columns
ImputeScores(frame) ==
    MapCells(frame, LAMBDA f, i, c :
        IF c \in SCORE_COLS /\ IsNA(Cell(f, i, c)) THEN GrpMean(f, i, c)
        ELSE Cell(f, i, c))
\* astype("string").str.upper().str.strip().map(BOOL_MAP).astype("boolean")
DecodeBools(frame) ==
    MapCells(frame, LAMBDA f, i, c :
        IF c \notin BOOLEAN_COLS THEN Cell(f, i, c)
        ELSE IF Cell(f, i, c).t # "str" THEN NA
        ELSE BOOL_MAP(Strip(Upper(Cell(f, i, c).s))))
\* mutant (C4): the modes of a tie come in descending order
ModeDescending(nFalse, nTrue) ==
    IF nFalse + nTrue = 0 THEN <<>>
    ELSE IF nFalse > nTrue THEN <<FALSE>>
    ELSE IF nTrue > nFalse THEN <<TRUE>>
    ELSE <<TRUE, FALSE>>
\* Series.mode(dropna=True) of a boolean group: the most frequent values, sorted
Mode(nFalse, nTrue) ==
    IF nFalse + nTrue = 0 THEN <<>>
    ELSE IF nFalse > nTrue THEN <<FALSE>>
    ELSE IF nTrue > nFalse THEN <<TRUE>>
    ELSE <<FALSE, TRUE>>
\* x.mode(dropna=True).iloc[0] if not x.mode(dropna=True).empty else np.nan
GrpMode(frame, i, c) ==
    LET S == GroupValid(frame, i, c)
        m == Mode(Cardinality({j \in S : ~Cell(frame, j, c).b}),
                  Cardinality({j \in S : Cell(frame, j, c).b}))
    IN  IF m = <<>> THEN NA ELSE Bool(m[1])
\* df[c].fillna(grp_mode) for the boolean columns
ImputeBools(frame) ==
    MapCells(frame, LAMBDA f, i, c :
        IF c \in BOOLEAN_COLS /\ IsNA(Cell(f, i, c)) THEN GrpMode(f, i, c)
        ELSE Cell(f, i, c))
\* df.dropna()
DropNa(frame) ==
    SelectSeq(frame, LAMBDA r : \A c \in DOMAIN r.cells : ~IsNA(r.cells[c]))
\* the frame of clean_df before the score loop, before the boolean loop, and
\* before the final dropna
Identified(frame) ==
    ValidateIds(CoerceInts(ValidateFormats(NormalizeStrings(ReplaceNulls(frame)))))
ScoresDone(frame) == ImputeScores(CoerceScores(Identified(frame)))
Imputed(frame) == ImputeBools(DecodeBools(ScoresDone(frame)))
\* what clean_df raises on a frame with the columns colset, "none" if nothing
CleanDfError(colset, frame) ==
    IF IntCastRaises(ValidateFormats(NormalizeStrings(ReplaceNulls(frame))))
    THEN "TypeError"
    ELSE IF "Track" \notin colset /\ (SCORE_COLS \cup BOOLEAN_COLS) \cap colset # {}
         THEN "KeyError"
    ELSE "none"
CleanDfResult(frame) == DropNa(Imputed(frame))

\* --------------------------------------------------------- drop_duplicates
\* df.sort_index(): rows in increasing order of their index label (stable)
RECURSIVE InsertByIdx(_, _)
InsertByIdx(sorted, r) ==
    IF sorted = <<>> THEN <<r>>
    ELSE IF sorted[Len(sorted)].idx <= r.idx THEN Append(sorted, r)
    ELSE Append(InsertByIdx(SubSeq(sorted, 1, Len(sorted) - 1), r), sorted[Len(sorted)])
RECURSIVE SortIndex(_)
SortIndex(frame) ==
    IF frame = <<>> THEN <<>>
    ELSE InsertByIdx(SortIndex(SubSeq(frame, 1, Len(frame) - 1)), frame[Len(frame)])
\* the rows of frame at the positions in keep, in order
Take(frame, keep) ==
    LET F[i \in 0..Len(frame)] ==
            IF i = 0 THEN <<>>
            ELSE IF i \in keep THEN Append(F[i - 1], frame[i]) ELSE F[i - 1]
    IN  F[Len(frame)]
\* subset=['StudentID', 'Term', 'Track']
DupKey(r) == <<r.cells["StudentID"], r.cells["Term"], r.cells["Track"]>>
\* mutant (C9): duplicates are removed while the frame is scanned, so the row
\* that follows a removed row is never examined
KeepFirstSkipping(frame) ==
    LET Scan[i \in 0..Len(frame)] ==
            IF i = 0 THEN [kept |-> {}, skip |-> FALSE]
            ELSE IF Scan[i - 1].skip
                 THEN [kept |-> Scan[i - 1].kept \cup {i}, skip |-> FALSE]
            ELSE IF \E j \in Scan[i - 1].kept : DupKey(frame[j]) = DupKey(frame[i])
                 THEN [kept |-> Scan[i - 1].kept, skip |-> TRUE]
            ELSE [kept |-> Scan[i - 1].kept \cup {i}, skip |-> FALSE]
    IN  Take(frame, Scan[Len(frame)].kept)
\* mutant (C2): keep='last'
KeepLast(frame) ==
    Take(frame, {i \in 1..Len(frame) :
                    \A j \in (i + 1)..Len(frame) : DupKey(frame[j]) # DupKey(frame[i])})
\* df.drop_duplicates(subset=..., keep='first')
KeepFirst(frame) ==
    Take(frame, {i \in 1..Len(frame) :
                    \A j \in 1..(i - 1) : DupKey(frame[j]) # DupKey(frame[i])})
DropDuplicatesError(colset) ==
    IF {"StudentID", "Term"} \subseteq colset /\ "Track" \notin colset
    THEN "KeyError" ELSE "none"
DropDuplicatesResult(colset, frame) ==
    IF {"StudentID", "Term"} \subseteq colset THEN KeepFirst(SortIndex(frame)) ELSE frame

\* ------------------------------------------------------- compute_all_stats
\* mutant (C8): a value starts a new group whenever it differs from the value
\* of the group before it (grouping of unsorted rows)
FirstSeenConsecutive(frame, c) ==
    LET F[i \in 0..Len(frame)] ==
            IF i = 0 THEN <<>>
            ELSE IF IsNA(Cell(frame, i, c))
                    \/ (F[i - 1] # <<>> /\ F[i - 1][Len(F[i - 1])] = Cell(frame, i, c))
                 THEN F[i - 1]
                 ELSE Append(F[i - 1], Cell(frame, i, c))
    IN  F[Len(frame)]
\* the distinct non-missing values of column c, in order of first appearance
FirstSeen(frame, c) ==
    LET F[i \in 0..Len(frame)] ==
            IF i = 0 THEN <<>>
            ELSE IF IsNA(Cell(frame, i, c)) \/ IsIn(F[i - 1], Cell(frame, i, c))
                 THEN F[i - 1]
                 ELSE Append(F[i - 1], Cell(frame, i, c))
    IN  F[Len(frame)]
CountOf(frame, c, v) == Cardinality({i \in 1..Len(frame) : Cell(frame, i, c) = v})
\* one row of a counts table
CountRow(c, v, n) == [k \in {c, "Nb Students"} |-> IF k = c THEN v ELSE Num(n)]
RECURSIVE InsertByCount(_, _, _)
InsertByCount(sorted, c, r) ==
    IF sorted = <<>> THEN <<r>>
    ELSE IF sorted[Len(sorted)]["Nb Students"].n >= r["Nb Students"].n THEN Append(sorted, r)
    ELSE Append(InsertByCount(SubSeq(sorted, 1, Len(sorted) - 1), c, r), sorted[Len(sorted)])
\* df[c].value_counts().rename_axis(c).reset_index(name='Nb Students'):
\* one row per non-missing value, most frequent first
ValueCounts(frame, c) ==
    LET keys == FirstSeen(frame, c)
        F[i \in 0..Len(keys)] ==
            IF i = 0 THEN <<>>
            ELSE InsertByCount(F[i - 1], c, CountRow(c, keys[i], CountOf(frame, c, keys[i])))
    IN  F[Len(keys)]
\* code points order the characters of the texts used
Alphabet == <<" ", "-", ".", "/">> \o Digits \o UpperCase \o LowerCase
RECURSIVE TextLess(_, _)
TextLess(a, b) ==
    IF b = <<>> THEN FALSE
    ELSE IF a = <<>> THEN TRUE
    ELSE IF Head(a) = Head(b) THEN TextLess(Tail(a), Tail(b))
    ELSE IndexIn(Alphabet, Head(a)) < IndexIn(Alphabet, Head(b))
RECURSIVE InsertByKey(_, _)
InsertByKey(sorted, v) ==
    IF sorted = <<>> THEN <<v>>
    ELSE IF ~TextLess(v.s, sorted[Len(sorted)].s) THEN Append(sorted, v)
    ELSE Append(InsertByKey(SubSeq(sorted, 1, Len(sorted) - 1), v), sorted[Len(sorted)])
\* the group keys of groupby('Track'), sorted
TrackGroups(frame) ==
    LET keys == FirstSeen(frame, "Track")
        F[i \in 0..Len(keys)] == IF i = 0 THEN <<>> ELSE InsertByKey(F[i - 1], keys[i])
    IN  F[Len(keys)]
\* sum over the pairs i < j of S of (x_i - x_j) * (y_i - y_j); with y = x this
\* is |S| times the sum of squared deviations of x
RECURSIVE SumPairs(_, _, _, _)
SumPairs(frame, P, cx, cy) ==
    IF P = {} THEN 0
    ELSE LET p == CHOOSE q \in P : TRUE
         IN  (Cell(frame, p[1], cx).n - Cell(frame, p[2], cx).n)
                * (Cell(frame, p[1], cy).n - Cell(frame, p[2], cy).n)
             + SumPairs(frame, P \ {p}, cx, cy)
PairSum(frame, S, cx, cy) ==
    SumPairs(frame, {p \in S \X S : p[1] < p[2]}, cx, cy)
\* mutant (C10): an undefined correlation is reported as 0
CorrelationZeroWhenUndefined(frame, track) ==
    LET S == {i \in 1..Len(frame) : Cell(frame, i, "Track") = track}
        dx == PairSum(frame, S, "Attendance (%)", "Attendance (%)")
        dy == PairSum(frame, S, "ProjectScore", "ProjectScore")
        num == PairSum(frame, S, "Attendance (%)", "ProjectScore")
    IN  IF dx = 0 \/ dy = 0 THEN Num(0)
        ELSE [t |-> "corr", num |-> num, dx |-> dx, dy |-> dy]
\* g[['Attendance (%)', 'ProjectScore']].corr().iloc[0, 1] times 100: NaN when
\* the divisor (nobs - 1) * sqrt(ssqdx) * sqrt(ssqdy) is zero, otherwise the
\* exact value 100 * num / sqrt(dx * dy), kept unevaluated
Correlation(frame, track) ==
    LET S == {i \in 1..Len(frame) : Cell(frame, i, "Track") = track}
        dx == PairSum(frame, S, "Attendance (%)", "Attendance (%)")
        dy == PairSum(frame, S, "ProjectScore", "ProjectScore")
        num == PairSum(frame, S, "Attendance (%)", "ProjectScore")
    IN  IF dx = 0 \/ dy = 0 THEN NA
        ELSE [t |-> "corr", num |-> num, dx |-> dx, dy |-> dy]
\* TrackStatistics.corr_attendance_project: one row per Track group
CorrAttendanceProject(frame) ==
    LET g == TrackGroups(frame)
    IN  [i \in 1..Len(g) |->
            [k \in {"Track", "Correlation (%)"} |->
                IF k = "Track" THEN g[i] ELSE Correlation(frame, g[i])]]
StatKeys == {"Track - Counts", "Cohort - Counts", "Income - Counts", "Track - Corr (%)"}
StatCols ==
    {"Track", "Cohort", "IncomeStudent", "Passed (Y/N)"} \cup SCORE_COLS
ComputeAllStatsError(colset) ==
    IF StatCols \subseteq colset THEN "none" ELSE "KeyError"
\* the counts tables and the correlation table of stats_dict
ComputeAllStatsResult(frame) ==
    [k \in StatKeys |->
        IF k = "Track - Counts" THEN ValueCounts(frame, "Track")
        ELSE IF k = "Cohort - Counts" THEN ValueCounts(frame, "Cohort")
        ELSE IF k = "Income - Counts" THEN ValueCounts(frame, "IncomeStudent")
        ELSE CorrAttendanceProject(frame)]

\* ---------------------------------------------------------- the workbooks
tAb == <<"A", "b">>
tAbSp == <<"a", "b", " ">>
tCd == <<"C", "d">>
tNA == <<"N", "A">>
SheetCols == (STR_COLS \ {"Track"}) \cup INT_COLS \cup SCORE_COLS \cup BOOLEAN_COLS
\* the cells of a well-formed row
BaseCell(c) ==
    IF c = "FirstName" THEN Str(<<"a", "n", "n">>)
    ELSE IF c = "LastName" THEN Str(<<"l", "e", "e">>)
    ELSE IF c = "StudentID" THEN Str(<<"1", "2", "3", "4">>)
    ELSE IF c = "Term" THEN Str(<<"1">>)
    ELSE IF c = "Cohort" THEN Str(<<"2", "3", "-", "2", "4">>)
    ELSE IF c = "Class" THEN Str(<<"1", "1", "a">>)
    ELSE IF c = "Attendance (%)" THEN Str(<<"8", "0">>)
    ELSE IF c = "ProjectScore" THEN Str(<<"7", "0">>)
    ELSE IF c \in SCORE_COLS THEN Str(<<"5", "0">>)
    ELSE Str(<<"Y">>)
\* the k-th of the distinct valid StudentID texts 1234, 2345, 3456, ...
IdText(k) == NatToStr(1234 + 1111 * (k - 1))
\* a row variant is a sequence of <<column, cell>> overrides of the base row
Ov(c, s) == <<c, Str(s)>>
IdVariants ==
    { <<>>,
      <<Ov("Term", <<"2">>)>>,
      <<Ov("StudentID", <<"5", "6", "7", "8">>)>>,
      <<Ov("StudentID", <<"1", ".", "5">>)>> }
IdFormatVariants ==
    { <<>>,
      <<Ov("Term", <<"3">>)>>,
      <<Ov("Term", <<"1", ".", "0">>)>>,
      <<Ov("StudentID", <<"0", "1", "2", "3">>)>>,
      <<Ov("StudentID", <<"1", "2", "A", "4">>)>>,
      <<Ov("StudentID", <<"N", "A">>)>> }
FormatVariants ==
    { <<>>,
      <<Ov("Cohort", <<"2", "3", "2", "4">>)>>,
      <<Ov("Cohort", <<" ", "2", "3", "-", "2", "4", " ">>)>>,
      <<Ov("Class", <<"1", "1", "1">>)>>,
      <<<<"Class", NA>>>>,
      <<Ov("FirstName", <<"N", "A">>)>>,
      <<Ov("LastName", <<" ", "l", "e", "e">>)>> }
ScoreVariants ==
    { <<>>,
      <<Ov("Attendance (%)", <<"8", "0", ".", "2", "5">>)>>,
      <<Ov("Attendance (%)", <<"8", "0", ".", "5">>)>>,
      <<Ov("Attendance (%)", <<"1", "5", "0">>)>>,
      <<<<"Attendance (%)", NA>>>> }
FewScoreVariants ==
    { <<>>,
      <<Ov("Attendance (%)", <<"8", "0", ".", "5">>)>>,
      <<<<"Attendance (%)", NA>>>> }
RangeVariants ==
    { <<>>,
      <<Ov("Math", <<"-", "0", ".", "0", "1">>)>>,
      <<Ov("Math", <<"0">>)>>,
      <<Ov("Math", <<"1", "0", "0">>)>>,
      <<Ov("Math", <<"1", "0", "0", ".", "0", "1">>)>>,
      <<Ov("Math", <<"a", "b", "c">>)>>,
      <<Ov("Math", <<"N", "a", "N">>)>> }
BoolVariants ==
    { <<>>,
      <<Ov("Passed (Y/N)", <<"N">>)>>,
      <<Ov("Passed (Y/N)", <<" ", "y", "e", "s">>)>>,
      <<Ov("Passed (Y/N)", <<"b", "o", "g", "u", "s">>)>> }
FewBoolVariants ==
    { <<>>,
      <<Ov("Passed (Y/N)", <<"F", "A", "L", "S", "E">>)>>,
      <<<<"Passed (Y/N)", NA>>>> }
IncomeVariants ==
    { <<>>,
      <<Ov("IncomeStudent", <<"n">>)>>,
      <<Ov("IncomeStudent", <<"0", ".", "0">>)>>,
      <<<<"IncomeStudent", NA>>>>,
      <<Ov("Cohort", <<"2", "4", "-", "2", "5">>)>>,
      <<Ov("IncomeStudent", <<"n">>), Ov("Cohort", <<"2", "4", "-", "2", "5">>)>> }
CorrVariants ==
    { <<>>,
      <<Ov("Attendance (%)", <<"9", "0">>)>>,
      <<Ov("ProjectScore", <<"9", "0">>)>>,
      <<Ov("Attendance (%)", <<"9", "0">>), Ov("ProjectScore", <<"9", "0">>)>> }
ColsVariants ==
    { <<>>,
      <<Ov("Term", <<"2">>)>>,
      <<<<"Math", NA>>>> }
\* rows that repeat a (StudentID, Term), rows with an invalid StudentID and
\* rows with a missing score and boolean, in one Track
MixVariants ==
    { <<Ov("Term", <<"2">>), <<"Attendance (%)", NA>>, <<"Passed (Y/N)", NA>>>>,
      <<Ov("Attendance (%)", <<"9", "0">>), Ov("Passed (Y/N)", <<"N">>)>>,
      <<Ov("StudentID", <<"0", "1", "2", "3">>), Ov("Attendance (%)", <<"9", "0">>),
        Ov("Passed (Y/N)", <<"N">>)>>,
      <<Ov("Term", <<"2">>)>> }
Family(names, drop, ids, variants) ==
    [names |-> names, drop |-> drop, ids |-> ids, variants |-> variants]
\* the workbooks read: the sheet names in workbook order, the columns the
\* sheets lack, whether the rows carry distinct StudentIDs, the rows' variants
Families ==
    { Family(<<>>, {}, FALSE, {<<>>}),
      Family(<<tAb, tCd>>, {}, FALSE, IdVariants),
      Family(<<tAb>>, {}, FALSE, IdFormatVariants),
      Family(<<tAb>>, {}, FALSE, FormatVariants),
      Family(<<tAb, tCd>>, {}, TRUE, ScoreVariants),
      Family(<<tAb, tAbSp>>, {}, TRUE, FewScoreVariants),
      Family(<<tNA, tAb>>, {}, TRUE, FewScoreVariants),
      Family(<<tAb>>, {}, TRUE, RangeVariants),
      Family(<<tAb, tCd>>, {}, TRUE, BoolVariants),
      Family(<<tAb, tAbSp>>, {}, TRUE, FewBoolVariants),
      Family(<<tAb>>, {}, TRUE, IncomeVariants),
      Family(<<tAb, tCd>>, {}, TRUE, CorrVariants),
      Family(<<tAb>>, {"StudentID"}, FALSE, ColsVariants),
      Family(<<tAb>>, {"Term"}, FALSE, ColsVariants),
      Family(<<tAb>>, {"Cohort"}, FALSE, ColsVariants),
      Family(<<tAb>>, {}, FALSE, MixVariants) }
\* the rows of k sheets, at most budget rows in all
RECURSIVE Contents(_, _, _)
Contents(V, k, budget) ==
    IF k = 0 THEN {<<>>}
    ELSE UNION { { <<s>> \o rest : s \in [1..m -> V], rest \in Contents(V, k - 1, budget - m) }
                 : m \in 0..budget }
Overridden(v, c) == \E i \in 1..Len(v) : v[i][1] = c
Override(v, c) == v[CHOOSE i \in 1..Len(v) : v[i][1] = c][2]
\* the row read from a sheet, with df["Track"] = sheet; pos is its position
\* in the merged frame (pd.concat(frames, ignore_index=True))
SheetRow(f, sheet, v, pos) ==
    [idx |-> pos - 1,
     cells |-> [c \in (SheetCols \ f.drop) \cup {"Track"} |->
                  IF c = "Track" THEN Str(sheet)
                  ELSE IF Overridden(v, c) THEN Override(v, c)
                  ELSE IF c = "StudentID" /\ f.ids THEN Str(IdText(pos))
                  ELSE BaseCell(c)]]
RECURSIVE Merge(_, _, _, _)
Merge(f, content, k, acc) ==
    IF k > Len(content) THEN acc
    ELSE Merge(f, content, k + 1,
               acc \o [i \in 1..Len(content[k]) |->
                          SheetRow(f, f.names[k], content[k][i], Len(acc) + i)])

\* --------------------------------------------------------------- pipeline
NoStats == [k \in StatKeys |-> <<>>]
NoError == <<>>
Init ==
    /\ pc = "start"
    /\ cols = {}
    /\ raw = <<>>
    /\ df = <<>>
    /\ stats = NoStats
    /\ err = NoError

Raise(where, what) ==
    /\ pc' = "error"
    /\ err' = <<where, what>>

\* load_all_sheets: pd.concat of no frame raises ValueError
LoadAllSheets ==
    /\ pc = "start"
    /\ \E f \in Families : \E content \in Contents(f.variants, Len(f.names), MaxRows) :
          IF Len(f.names) = 0
          THEN Raise("load_all_sheets", "ValueError") /\ UNCHANGED <<cols, raw, df, stats>>
          ELSE /\ pc' = "loaded"
               /\ cols' = (SheetCols \ f.drop) \cup {"Track"}
               /\ raw' = Merge(f, content, 1, <<>>)
               /\ df' = raw'
               /\ UNCHANGED <<stats, err>>

CleanDf ==
    /\ pc = "loaded"
    /\ IF CleanDfError(cols, df) # "none"
       THEN Raise("clean_df", CleanDfError(cols, df)) /\ UNCHANGED <<cols, raw, df, stats>>
       ELSE /\ pc' = "cleaned"
            /\ df' = CleanDfResult(df)
            /\ UNCHANGED <<cols, raw, stats, err>>

DropDuplicates ==
    /\ pc = "cleaned"
    /\ IF DropDuplicatesError(cols) # "none"
       THEN Raise("drop_duplicates", DropDuplicatesError(cols))
            /\ UNCHANGED <<cols, raw, df, stats>>
       ELSE /\ pc' = "deduped"
            /\ df' = DropDuplicatesResult(cols, df)
            /\ UNCHANGED <<cols, raw, stats, err>>

ComputeAllStats ==
    /\ pc = "deduped"
    /\ IF ComputeAllStatsError(cols) # "none"
       THEN Raise("compute_all_stats", ComputeAllStatsError(cols))
            /\ UNCHANGED <<cols, raw, df, stats>>
       ELSE /\ pc' = "done"
            /\ stats' = ComputeAllStatsResult(df)
            /\ UNCHANGED <<cols, raw, df, err>>

Next == LoadAllSheets \/ CleanDf \/ DropDuplicates \/ ComputeAllStats
Spec == Init /\ [][Next]_vars
\* the same pipeline, for the property that compares two runs of clean_df
SpecTwoRuns == Init /\ [][Next]_vars

\* ------------------------------------------------------------- properties
TenDigits == {"0", "1", "2", "3", "4", "5", "6", "7", "8", "9"}
LetterSet == {LowerCase[i] : i \in 1..Len(LowerCase)} \cup {UpperCase[i] : i \in 1..Len(UpperCase)}
HasOutput == pc \in {"cleaned", "deduped", "done"}
\* the row of the loaded frame that a row of df comes from
RawAt(r) == raw[r.idx + 1]
IsScore(x) == x.t = "num" /\ x.n >= 0 /\ x.n <= 100 * Scale
FieldOk(c, x) ==
    /\ x.t # "na"
    /\ c = "StudentID" => x.t = "num" /\ x.n >= 1000 /\ x.n <= 9999
    /\ c = "Term" => x.t = "num" /\ (x.n = 1 \/ x.n = 2)
    /\ c = "Cohort" =>
          /\ x.t = "str" /\ Len(x.s) = 5 /\ x.s[3] = "-"
          /\ {x.s[1], x.s[2], x.s[4], x.s[5]} \subseteq TenDigits
    /\ c = "Class" =>
          /\ x.t = "str" /\ Len(x.s) = 3
          /\ {x.s[1], x.s[2]} \subseteq TenDigits /\ x.s[3] \in LetterSet
    /\ c \in {"Math", "English", "Science", "History", "Attendance (%)", "ProjectScore"}
          => IsScore(x)

\* C1: every record of clean_df's output has no missing field, a StudentID of
\* exactly four digits, a Term of 1 or 2, a Cohort of the form dd-dd, a Class
\* of two digits and a letter, and every score (imputed ones too) in [0, 100].
C1_CleanedRowsValid ==
    HasOutput => \A i \in 1..Len(df) : \A c \in DOMAIN df[i].cells : FieldOk(c, df[i].cells[c])
\* a run where one row was dropped and a surviving row had its score imputed
C1_Witness ==
    /\ pc = "cleaned"
    /\ Len(df) < Len(raw)
    /\ \E i \in 1..Len(df) :
          /\ RawAt(df[i]).cells["Attendance (%)"] = NA
          /\ df[i].cells["Attendance (%)"].n % Scale # 0

\* C2: drop_duplicates keeps, for each (StudentID, Term, Track) triple of its
\* input, exactly the first row with that triple and no other row; the rows
\* kept have pairwise distinct triples and keep their input order.
C2_FirstOfEachTriple ==
    (pc = "deduped" /\ {"StudentID", "Term", "Track"} \subseteq cols) =>
        LET in == CleanDfResult(raw)
        IN  /\ \A i \in 1..Len(in) :
                  (\E k \in 1..Len(df) : df[k] = in[i])
                    <=> (\A j \in 1..(i - 1) : DupKey(in[j]) # DupKey(in[i]))
            /\ \A k \in 1..Len(df) : \E i \in 1..Len(in) : df[k] = in[i]
            /\ \A k, l \in 1..Len(df) :
                  k < l => df[k].idx < df[l].idx /\ DupKey(df[k]) # DupKey(df[l])
\* a run where a duplicate was removed and two distinct triples survive
C2_Witness ==
    /\ pc = "deduped"
    /\ Len(df) = 2
    /\ Len(CleanDfResult(raw)) = 3

\* C3: clean_df never raises: a malformed value, such as 1.5 in StudentID or
\* Term, becomes missing and clean_df terminates normally.
C3_CleanNeverRaises == ~(pc = "error" /\ err[1] = "clean_df")

\* the rows of row i's Track group that hold a decoded boolean in column c
BoolGroup(dec, i, c) ==
    {j \in 1..Len(dec) :
        /\ dec[i].cells["Track"].t # "na"
        /\ dec[j].cells["Track"] = dec[i].cells["Track"]
        /\ dec[j].cells[c].t = "bool"}
FirstOf(S) == CHOOSE j \in S : \A k \in S : j <= k
\* the rows of df are the rows of the imputed frame without a missing value
OutputIsComplete(frame) ==
    /\ \A k \in 1..Len(df) : df[k] = frame[df[k].idx + 1]
    /\ \A i \in 1..Len(frame) :
          (\E k \in 1..Len(df) : df[k].idx = i - 1)
            <=> (\A c \in DOMAIN frame[i].cells : frame[i].cells[c].t # "na")
\* dec: the decoded booleans before imputation; imp: the frame before dropna
BoolImputation(dec, imp, tieTakesFirst) ==
    \A i \in 1..Len(dec) : \A c \in BOOLEAN_COLS \cap cols :
        LET x == imp[i].cells[c]
            G == BoolGroup(dec, i, c)
            nTrue == Cardinality({j \in G : dec[j].cells[c].b})
            nFalse == Cardinality({j \in G : ~dec[j].cells[c].b})
        IN  IF dec[i].cells[c].t = "bool" THEN x = dec[i].cells[c]
            ELSE IF G = {} THEN x.t = "na"
            ELSE IF nTrue > nFalse THEN x = Bool(TRUE)
            ELSE IF nTrue < nFalse THEN x = Bool(FALSE)
            ELSE IF tieTakesFirst THEN x = dec[FirstOf(G)].cells[c]
            ELSE x = Bool(FALSE)
\* C4 as stated: a missing boolean takes the most frequent decoded value of
\* its Track group, on a tie the value met first in row order, and stays
\* missing when the group has no value.
C4_TieFirstEncountered ==
    pc = "cleaned" =>
        LET dec == DecodeBools(ScoresDone(raw))
            imp == ImputeBools(dec)
        IN  BoolImputation(dec, imp, TRUE)
\* C4: a missing boolean takes the most frequent decoded value of its Track
\* group; when true and false are equally frequent it takes false; it stays
\* missing when the group has no value, and the row is then dropped.
C4_TieIsFalse ==
    pc = "cleaned" =>
        LET dec == DecodeBools(ScoresDone(raw))
            imp == ImputeBools(dec)
        IN  BoolImputation(dec, imp, FALSE) /\ OutputIsComplete(imp)
\* a run where a tie whose first value is true was imputed as false
C4_Witness ==
    /\ pc = "cleaned"
    /\ LET dec == DecodeBools(ScoresDone(raw))
       IN  \E k \in 1..Len(df) : \E c \in BOOLEAN_COLS \cap cols :
              LET i == df[k].idx + 1
                  G == BoolGroup(dec, i, c)
              IN  /\ dec[i].cells[c].t = "na"
                  /\ G # {}
                  /\ 2 * Cardinality({j \in G : dec[j].cells[c].b}) = Cardinality(G)
                  /\ dec[FirstOf(G)].cells[c].b
                  /\ ~df[k].cells[c].b

\* C5: a dataset that lacks Track, StudentID or Term is not cleaned and gets
\* no summary tables: the pipeline stops with an error.
C5_StopsOnMissingColumn ==
    HasOutput => {"Track", "StudentID", "Term"} \subseteq cols

\* C6: a score that is missing after coercion and range filtering becomes the
\* mean of the valid values of that field over the rows of the same Track,
\* rounded to one decimal (a tenth nearest to the mean); it stays missing, and
\* the row is dropped, when the Track has no valid value for the field (rows
\* whose Track is missing form no group); a valid score is left unchanged.
C6_ScoreImputation ==
    pc = "cleaned" =>
        LET pre == CoerceScores(Identified(raw))
            imp == ImputeScores(pre)
        IN  /\ \A i \in 1..Len(pre) : \A c \in SCORE_COLS \cap cols :
                  LET x == imp[i].cells[c]
                      G == {j \in 1..Len(pre) :
                              /\ pre[i].cells["Track"].t # "na"
                              /\ pre[j].cells["Track"] = pre[i].cells["Track"]
                              /\ IsScore(pre[j].cells[c])}
                      sum == SumCells(pre, G, c)
                      tenth == Scale \div 10
                  IN  IF pre[i].cells[c].t # "na" THEN x = pre[i].cells[c]
                      ELSE IF G = {} THEN x.t = "na"
                      ELSE /\ x.t = "num"
                           /\ x.n % tenth = 0
                           /\ 2 * (x.n * Cardinality(G) - sum) <= tenth * Cardinality(G)
                           /\ 2 * (sum - x.n * Cardinality(G)) <= tenth * Cardinality(G)
            /\ \A k \in 1..Len(df) : \A c \in SCORE_COLS \cap cols :
                  df[k].cells[c] = imp[df[k].idx + 1].cells[c]
            /\ \A i \in 1..Len(imp) :
                  (\E c \in SCORE_COLS \cap cols : imp[i].cells[c].t = "na")
                    => (\A k \in 1..Len(df) : df[k].idx # i - 1)
\* a run where a surviving row got the mean 80.375 of its Track, rounded to
\* 80.4, and the two valid values of the Track are unchanged
C6_Witness ==
    /\ pc = "cleaned"
    /\ Len(df) = 3
    /\ \E k \in 1..Len(df) :
          /\ RawAt(df[k]).cells["Attendance (%)"].t = "na"
          /\ df[k].cells["Attendance (%)"].n = 80 * Scale + 4 * (Scale \div 10)

\* the rows of a frame whose Track is not the given cell
OtherTracks(frame, track) == SelectSeq(frame, LAMBDA r : r.cells["Track"] # track)
\* the cells a score or boolean cell is changed to
AltCells(c) ==
    IF c \in SCORE_COLS THEN {NA, Str(<<"3">>)} ELSE {NA, Str(<<"N">>)}
Changed(frame, i, c, x) == [frame EXCEPT ![i].cells[c] = x]
\* C7: changing one score or boolean cell of a row of Track A leaves the
\* output of clean_df on the rows of every other Track unchanged.
C7_GroupLocal ==
    pc = "cleaned" =>
        LET norm == NormalizeStrings(ReplaceNulls(raw))
        IN  \A i \in 1..Len(raw) :
                (\E j \in 1..Len(raw) : norm[j].cells["Track"] # norm[i].cells["Track"]) =>
                    \A c \in (SCORE_COLS \cup BOOLEAN_COLS) \cap cols : \A x \in AltCells(c) :
                        OtherTracks(CleanDfResult(Changed(raw, i, c, x)), norm[i].cells["Track"])
                            = OtherTracks(df, norm[i].cells["Track"])
\* a run with two Tracks where changing a score of a row of one Track changes
\* the output, and the other Track holds an imputed score
C7_Witness ==
    /\ pc = "cleaned"
    /\ \E k, l \in 1..Len(df) :
          /\ df[k].cells["Track"] # df[l].cells["Track"]
          /\ RawAt(df[l]).cells["Attendance (%)"].t = "na"
          /\ CleanDfResult(Changed(raw, df[k].idx + 1, "Attendance (%)", Str(<<"3">>))) # df

RECURSIVE SumNb(_)
SumNb(table) ==
    IF table = <<>> THEN 0 ELSE table[1]["Nb Students"].n + SumNb(Tail(table))
CountsOk(table, c) ==
    /\ SumNb(table) = Len(df)
    /\ \A i \in 1..Len(df) :
          Cardinality({k \in 1..Len(table) : table[k][c] = df[i].cells[c]}) = 1
    /\ \A k \in 1..Len(table) :
          /\ table[k]["Nb Students"].n > 0
          /\ table[k]["Nb Students"].n
                = Cardinality({i \in 1..Len(df) : df[i].cells[c] = table[k][c]})
\* C8: for Track, Cohort and IncomeStudent, the 'Nb Students' of the counts
\* table sum to the number of rows of the cleaned, deduplicated dataset, and
\* the table has exactly one row per value that occurs in the dataset.
C8_CountsSumToRows ==
    pc = "done" =>
        /\ CountsOk(stats["Track - Counts"], "Track")
        /\ CountsOk(stats["Cohort - Counts"], "Cohort")
        /\ CountsOk(stats["Income - Counts"], "IncomeStudent")
\* a run with three rows where a Cohort and an income status occur in rows
\* that are not adjacent, and a row was dropped by cleaning or deduplication
C8_Witness ==
    /\ pc = "done"
    /\ Len(stats["Income - Counts"]) = 2
    /\ Len(df) = 3
    /\ df[1].cells["IncomeStudent"] = df[3].cells["IncomeStudent"]
    /\ df[1].cells["IncomeStudent"] # df[2].cells["IncomeStudent"]

\* C9: drop_duplicates applied to its own output returns it unchanged, same
\* rows in the same order.
C9_DedupIdempotent ==
    pc = "deduped" => DropDuplicatesResult(cols, df) = df
\* a run where drop_duplicates removed a row and kept at least two
C9_Witness ==
    /\ pc = "deduped"
    /\ Len(df) >= 2
    /\ Len(df) < Len(CleanDfResult(raw))
    /\ {"StudentID", "Term"} \subseteq cols

AllEqual(frame, S, c) == \A i, j \in S : frame[i].cells[c].n = frame[j].cells[c].n
\* C10: in 'Track - Corr (%)', a Track group with fewer than 2 rows, or with
\* all Attendance (%) equal, or with all ProjectScore equal, has its row, and
\* the row's correlation is the missing value, never 0.
C10_UndefinedCorrIsMissing ==
    pc = "done" =>
        \A i \in 1..Len(df) :
            LET S == {j \in 1..Len(df) : df[j].cells["Track"] = df[i].cells["Track"]}
                rows == {k \in 1..Len(stats["Track - Corr (%)"]) :
                            stats["Track - Corr (%)"][k]["Track"] = df[i].cells["Track"]}
            IN  /\ Cardinality(rows) = 1
                /\ (Cardinality(S) < 2 \/ AllEqual(df, S, "Attendance (%)")
                        \/ AllEqual(df, S, "ProjectScore"))
                    => \A k \in rows :
                          stats["Track - Corr (%)"][k]["Correlation (%)"].t = "na"
\* a run where one Track has two rows of equal Attendance (%) and different
\* ProjectScore, and another Track has a single row
C10_Witness ==
    /\ pc = "done"
    /\ Len(df) = 3
    /\ df[1].cells["Track"] = df[2].cells["Track"]
    /\ df[1].cells["Attendance (%)"] = df[2].cells["Attendance (%)"]
    /\ df[1].cells["ProjectScore"] # df[2].cells["ProjectScore"]
    /\ df[3].cells["Track"] # df[1].cells["Track"]

\* what a cell of the loaded frame holds once clean_df has read it as a
\* Track, as a score, as a boolean: NA when it holds no such value
LoadedText(x) == x.t = "str" /\ x.s \notin SPECIAL_NULLS
LoadedTrack(x) == IF LoadedText(x) THEN Str(Title(Strip(x.s))) ELSE NA
LoadedScore(x) ==
    IF ~LoadedText(x) THEN NA
    ELSE LET v == ToNumeric(x.s) IN IF IsScore(v) THEN v ELSE NA
LoadedBool(x) == IF LoadedText(x) THEN BOOL_MAP(Strip(Upper(x.s))) ELSE NA
RECURSIVE SumLoadedScores(_, _)
SumLoadedScores(G, c) ==
    IF G = {} THEN 0
    ELSE LET j == CHOOSE m \in G : TRUE
         IN  LoadedScore(raw[j].cells[c]).n + SumLoadedScores(G \ {j}, c)
\* the rows of the loaded frame in the Track of its row i
TrackRows(i) ==
    {j \in 1..Len(raw) :
        LoadedTrack(raw[j].cells["Track"]) = LoadedTrack(raw[i].cells["Track"])}

\* C11: the value imputed into a row that clean_df returns, and that the row
\* still holds after drop_duplicates, is taken over all the rows of its Track
\* in the loaded frame, whether or not they reach the output: a missing score
\* is the tenth nearest to the mean of every valid score of the Track, a
\* missing boolean is the majority of every decoded boolean of the Track,
\* rows that dropna or drop_duplicates later removes counting once each.
C11_ImputedFromAllRows ==
    pc \in {"cleaned", "deduped"} =>
        \A k \in 1..Len(df) :
            LET i == df[k].idx + 1
                T == TrackRows(i)
                tenth == Scale \div 10
            IN  /\ \A c \in SCORE_COLS \cap cols :
                      LoadedScore(raw[i].cells[c]).t = "na" =>
                          LET G == {j \in T : LoadedScore(raw[j].cells[c]).t = "num"}
                              sum == SumLoadedScores(G, c)
                              x == df[k].cells[c]
                          IN  /\ G # {}
                              /\ x.t = "num"
                              /\ x.n % tenth = 0
                              /\ 2 * (x.n * Cardinality(G) - sum) <= tenth * Cardinality(G)
                              /\ 2 * (sum - x.n * Cardinality(G)) <= tenth * Cardinality(G)
                /\ \A c \in BOOLEAN_COLS \cap cols :
                      LoadedBool(raw[i].cells[c]).t = "na" =>
                          LET nTrue == Cardinality({j \in T :
                                          LoadedBool(raw[j].cells[c]) = Bool(TRUE)})
                              nFalse == Cardinality({j \in T :
                                          LoadedBool(raw[j].cells[c]) = Bool(FALSE)})
                              x == df[k].cells[c]
                          IN  /\ nTrue + nFalse > 0
                              /\ x.t = "bool"
                              /\ nTrue > nFalse => x.b
                              /\ nTrue < nFalse => ~x.b
\* a run, after drop_duplicates, where the only row left had its attendance
\* and its pass flag imputed from a row removed as its duplicate (80, true)
\* and from a row dropped for an invalid StudentID (90, false)
C11_Witness ==
    /\ pc = "deduped"
    /\ Len(raw) = 3
    /\ Len(df) = 1
    /\ LET out == CleanDfResult(raw)
           r == df[1]
       IN  /\ LoadedScore(RawAt(r).cells["Attendance (%)"]).t = "na"
           /\ LoadedBool(RawAt(r).cells["Passed (Y/N)"]).t = "na"
           /\ r.cells["Attendance (%)"].n = 85 * Scale
           /\ ~r.cells["Passed (Y/N)"].b
           /\ \E j \in 1..Len(raw) :
                 /\ \A m \in 1..Len(out) : out[m].idx # j - 1
                 /\ LoadedScore(raw[j].cells["Attendance (%)"]).n = 90 * Scale
                 /\ LoadedBool(raw[j].cells["Passed (Y/N)"]) = Bool(FALSE)
           /\ \E m \in 1..Len(out) :
                 /\ out[m].idx # r.idx
                 /\ DupKey(out[m]) = DupKey(r)
                 /\ out[m].cells["Attendance (%)"].n = 80 * Scale
                 /\ out[m].cells["Passed (Y/N)"].b

\* C12: the StudentID is validated as the integer it is coerced to: a row
\* whose StudentID text is four digits starting with 0 does not reach the
\* output of clean_df, and every StudentID of the output is an integer from
\* 1000 to 9999.
C12_IdValidatedAfterCoercion ==
    (HasOutput /\ "StudentID" \in cols) =>
        /\ \A k \in 1..Len(df) :
              /\ df[k].cells["StudentID"].t = "num"
              /\ df[k].cells["StudentID"].n >= 1000
              /\ df[k].cells["StudentID"].n <= 9999
        /\ \A i \in 1..Len(raw) :
              LET x == raw[i].cells["StudentID"]
              IN  (/\ x.t = "str" /\ Len(x.s) = 4 /\ x.s[1] = "0"
                   /\ \A p \in 1..4 : x.s[p] \in TenDigits)
                    => \A k \in 1..Len(df) : df[k].idx # i - 1
\* a run of clean_df where a row with the StudentID text 0123 was dropped and
\* a row with a valid StudentID was kept
C12_Witness ==
    /\ pc = "cleaned"
    /\ Len(df) >= 1
    /\ \E i \in 1..Len(raw) :
          /\ raw[i].cells["StudentID"] = Str(<<"0", "1", "2", "3">>)
          /\ \A c \in DOMAIN raw[i].cells \ {"StudentID", "Track"} :
                raw[i].cells[c] = BaseCell(c)
          /\ \A k \in 1..Len(df) : df[k].idx # i - 1

====
